---- MODULE Spec2Model ----
(***************************************************************************)
(* A model of src/src/language/foq.py: the formula object graph (Term,     *)
(* Atomic, Negation, Conjunction, Disjunction), its nested-dict codec      *)
(* (to_ldict / parse / check_ldict), and EFO1Query with its grounding      *)
(* lists and get_bfs_variable_ordering.                                    *)
(*                                                                         *)
(* Python strings are sequences of one-character strings, so that          *)
(* set(source_var_name) and the formatting of lstr are computed as the     *)
(* code computes them.  A Python dict is a sequence of [k, v] entries in   *)
(* insertion order when the order is observable, and a function otherwise. *)
(* An object is a record whose DOMAIN is the set of its attributes; a call *)
(* that can raise returns [raised |-> <exception name or "none">, ...].    *)
(***************************************************************************)
EXTENDS Integers, Sequences, FiniteSets, TLC

VARIABLES
    formula,                         \* EFO1Query.formula
    atomic_dict,                     \* lstr -> Atomic, in insertion order
    term_dict,                       \* term name -> Term
    term_name2atomic_name_list,      \* term name -> list of atomic lstr
    pred_grounded_relation_id_dict,  \* relation name -> list of ids
    term_grounded_entity_id_dict,    \* term name -> list of ids
    easy_answer_list,
    hard_answer_list,
    noisy_answer_list,
    log,                             \* history: the calls made on the query
    source_var_name,                 \* get_bfs_variable_ordering: argument
    visited_vars,                    \* get_bfs_variable_ordering: local
    var_name_levels,                 \* get_bfs_variable_ordering: local
    pc,                              \* position in get_bfs_variable_ordering
    obj,                             \* codec: the object under test
    ldict,                           \* codec: the mapping under test
    orig,                            \* codec: the object ldict was made from
    ret                              \* codec: outcome of the last call

index_vars == <<formula, atomic_dict, term_dict, term_name2atomic_name_list>>
list_vars == <<pred_grounded_relation_id_dict, term_grounded_entity_id_dict,
               easy_answer_list, hard_answer_list, noisy_answer_list>>
bfs_vars == <<source_var_name, visited_vars, var_name_levels, pc>>
codec_vars == <<obj, ldict, orig, ret>>
vars == <<index_vars, list_vars, log, bfs_vars, codec_vars>>

(***************************************************************************)
(* Bounds of the model.                                                    *)
(***************************************************************************)
MaxQueryAtomics == 1
MaxKeys == 2
MaxCalls == 2
MaxBfsAtomics == 3
MaxFairAtomics == 2
MaxLiterals == 2
MaxLevels == 7

(***************************************************************************)
(* Term states and op tags.                                                *)
(***************************************************************************)
EXISTENTIAL == 1
FREE == 2
UNIVERSAL == 3
SYMBOL == 4

Term_op == "term"
Atomic_op == "pred"
Negation_op == "neg"
Conjunction_op == "conj"
Disjunction_op == "disj"

Range(s) == {s[i] : i \in 1..Len(s)}

(***************************************************************************)
(* Ordered dict helpers: d is a sequence of [k |-> key, v |-> value].      *)
(***************************************************************************)
DictKeys(d) == {d[i].k : i \in 1..Len(d)}

DictGet(d, key) == d[CHOOSE i \in 1..Len(d) : d[i].k = key].v

\* d[key] = value: an existing key keeps its position, a new key goes last
DictSet(d, key, value) ==
    IF key \in DictKeys(d)
    THEN [i \in 1..Len(d) |-> IF d[i].k = key THEN [k |-> key, v |-> value] ELSE d[i]]
    ELSE Append(d, [k |-> key, v |-> value])

RECURSIVE DictUpdateFrom(_, _, _)
DictUpdateFrom(d, e, i) ==
    IF i > Len(e) THEN d
    ELSE DictUpdateFrom(DictSet(d, e[i].k, e[i].v), e, i + 1)

\* d.update(e)
DictUpdate(d, e) == DictUpdateFrom(d, e, 1)

(***************************************************************************)
(* Constructors.                                                           *)
(***************************************************************************)
Term(state, name) == [op |-> Term_op, state |-> state, name |-> name,
                      parent_predicate |-> "None"]

Atomic(relation, head, tail) ==
    [op |-> Atomic_op, relation |-> relation, head |-> head, tail |-> tail,
     negated |-> FALSE]

Negation(f) == [op |-> Negation_op, formula |-> f]

Conjunction(fs) == [op |-> Conjunction_op, formulas |-> fs]

Disjunction(fs) == [op |-> Disjunction_op, formulas |-> fs]

(***************************************************************************)
(* lstr                                                                    *)
(***************************************************************************)
Atomic_lstr(a) ==
    a.relation \o <<"(">> \o a.head.name \o <<",">> \o a.tail.name \o <<")">>

RECURSIVE Join(_, _, _)
\* sep.join(parts), from part i on
Join(sep, parts, i) ==
    IF i > Len(parts) THEN <<>>
    ELSE IF i = Len(parts) THEN parts[i]
    ELSE parts[i] \o sep \o Join(sep, parts, i + 1)

RECURSIVE lstr(_)
lstr(f) ==
    IF f.op = Term_op THEN f.name
    ELSE IF f.op = Atomic_op THEN Atomic_lstr(f)
    ELSE IF f.op = Negation_op THEN <<"!", "(">> \o lstr(f.formula) \o <<")">>
    ELSE LET parts == [i \in 1..Len(f.formulas) |->
                          <<"(">> \o lstr(f.formulas[i]) \o <<")">>]
         IN  Join(IF f.op = Conjunction_op THEN <<"&">> ELSE <<"|">>, parts, 1)

(***************************************************************************)
(* get_atomics, get_terms                                                  *)
(***************************************************************************)
get_terms(a) == <<a.head, a.tail>>

RECURSIVE get_atomics(_)
RECURSIVE get_atomics_of_list(_, _, _)
get_atomics(f) ==
    IF f.op = Atomic_op THEN <<[k |-> Atomic_lstr(f), v |-> f]>>
    ELSE IF f.op = Negation_op THEN DictUpdate(<<>>, get_atomics(f.formula))
    ELSE get_atomics_of_list(f.formulas, 1, <<>>)

get_atomics_of_list(fs, i, ans) ==
    IF i > Len(fs) THEN ans
    ELSE get_atomics_of_list(fs, i + 1, DictUpdate(ans, get_atomics(fs[i])))

(***************************************************************************)
(* EFO1Query._init_query                                                   *)
(***************************************************************************)
RECURSIVE AllTerms(_, _)
\* the terms of the atomics of ad, in iteration order, from entry i on
AllTerms(ad, i) ==
    IF i > Len(ad) THEN <<>>
    ELSE get_terms(ad[i].v) \o AllTerms(ad, i + 1)

\* self.term_dict[t.name] = t over all terms: the last write wins
init_term_dict(ad) ==
    LET ts == AllTerms(ad, 1)
        names == {ts[i].name : i \in 1..Len(ts)}
        last(n) == CHOOSE i \in 1..Len(ts) :
                      /\ ts[i].name = n
                      /\ \A j \in 1..Len(ts) : ts[j].name = n => j <= i
    IN  [n \in names |-> ts[last(n)]]

init_pred_grounded(ad) ==
    [rel \in {ad[i].v.relation : i \in 1..Len(ad)} |-> <<>>]

init_term_grounded(td) == [n \in DOMAIN td |-> <<>>]

RECURSIVE IncidentAtomics(_, _, _)
\* the keys appended to term_name2atomic_name_list[n], from entry i on
IncidentAtomics(ad, n, i) ==
    IF i > Len(ad) THEN <<>>
    ELSE (IF ad[i].v.head.name = n THEN <<ad[i].k>> ELSE <<>>)
         \o (IF ad[i].v.tail.name = n THEN <<ad[i].k>> ELSE <<>>)
         \o IncidentAtomics(ad, n, i + 1)

init_term_name2atomic_name_list(ad, td) ==
    [n \in DOMAIN td |-> IncidentAtomics(ad, n, 1)]

\* defaultdict(list): a missing name reads as the empty list
AdjacencyOf(name) ==
    IF name \in DOMAIN term_name2atomic_name_list
    THEN term_name2atomic_name_list[name]
    ELSE <<>>

\* EFO1Query(f): __init__ followed by _init_query
QueryInit(f) ==
    /\ formula = f
    /\ atomic_dict = get_atomics(f)
    /\ term_dict = init_term_dict(atomic_dict)
    /\ term_name2atomic_name_list =
           init_term_name2atomic_name_list(atomic_dict, term_dict)
    /\ pred_grounded_relation_id_dict = init_pred_grounded(atomic_dict)
    /\ term_grounded_entity_id_dict = init_term_grounded(term_dict)
    /\ easy_answer_list = <<>>
    /\ hard_answer_list = <<>>
    /\ noisy_answer_list = <<>>
    /\ log = <<>>

(***************************************************************************)
(* Derived properties                                                      *)
(***************************************************************************)
symbol_dict == {n \in DOMAIN term_dict : term_dict[n].state = SYMBOL}

RelationNames == DOMAIN pred_grounded_relation_id_dict

\* the num_instances property: its value, or the assertion that fails
num_instances ==
    LET n == Len(easy_answer_list)
    IN  IF /\ n = Len(hard_answer_list)
           /\ \A k \in symbol_dict : n = Len(term_grounded_entity_id_dict[k])
           /\ \A i \in 1..Len(atomic_dict) :
                 n = Len(pred_grounded_relation_id_dict[atomic_dict[i].v.relation])
        THEN [raised |-> "none", value |-> n]
        ELSE [raised |-> "AssertionError"]

(***************************************************************************)
(* append_relation_and_symbols, append_qa_instances                        *)
(***************************************************************************)
\* line 431: the key is looked up among the terms first
KeyIsTermUnlessRelation(k) ==
    k \in DOMAIN term_dict /\ k \notin DOMAIN pred_grounded_relation_id_dict

KeyIsTerm(k) == k \in DOMAIN term_dict

\* line 432: self.term_grounded_entity_id_dict[k].append(v)
TermAppendFront(tg, k, v) == [tg EXCEPT ![k] = <<v>> \o @]

TermAppend(tg, k, v) == [tg EXCEPT ![k] = Append(@, v)]

\* line 434: self.pred_grounded_relation_id_dict[k].append(v)
PredAssign(pg, k, v) == [pg EXCEPT ![k] = <<v>>]

PredAppend(pg, k, v) == [pg EXCEPT ![k] = Append(@, v)]

RECURSIVE ars_loop(_, _, _, _)
\* the for loop of append_relation_and_symbols from entry i on; a key that is
\* neither a term nor a relation raises KeyError and leaves what was appended
ars_loop(d, i, tg, pg) ==
    IF i > Len(d) THEN [raised |-> "none", tg |-> tg, pg |-> pg]
    ELSE IF KeyIsTerm(d[i].k)
         THEN ars_loop(d, i + 1, TermAppend(tg, d[i].k, d[i].v), pg)
    ELSE IF d[i].k \in DOMAIN pg
         THEN ars_loop(d, i + 1, tg, PredAppend(pg, d[i].k, d[i].v))
    ELSE [raised |-> "KeyError", tg |-> tg, pg |-> pg]

append_relation_and_symbols(append_dict) ==
    LET r == ars_loop(append_dict, 1, term_grounded_entity_id_dict,
                      pred_grounded_relation_id_dict)
    IN  /\ Len(log) < MaxCalls
        /\ term_grounded_entity_id_dict' = r.tg
        /\ pred_grounded_relation_id_dict' = r.pg
        /\ log' = Append(log, [op |-> "append_relation_and_symbols",
                               append_dict |-> append_dict,
                               raised |-> r.raised])
        /\ UNCHANGED <<easy_answer_list, hard_answer_list, noisy_answer_list>>
        /\ UNCHANGED <<index_vars, bfs_vars, codec_vars>>

append_qa_instances(append_dict, easy_answers, hard_answers, noisy_answer) ==
    LET r == ars_loop(append_dict, 1, term_grounded_entity_id_dict,
                      pred_grounded_relation_id_dict)
    IN  /\ Len(log) < MaxCalls
        /\ term_grounded_entity_id_dict' = r.tg
        /\ pred_grounded_relation_id_dict' = r.pg
        /\ IF r.raised = "none"
           THEN /\ easy_answer_list' = Append(easy_answer_list, easy_answers)
                /\ hard_answer_list' = Append(hard_answer_list, hard_answers)
                /\ noisy_answer_list' = Append(noisy_answer_list, noisy_answer)
           ELSE UNCHANGED <<easy_answer_list, hard_answer_list, noisy_answer_list>>
        /\ log' = Append(log, [op |-> "append_qa_instances",
                               append_dict |-> append_dict,
                               easy_answers |-> easy_answers,
                               hard_answers |-> hard_answers,
                               noisy_answer |-> noisy_answer,
                               raised |-> r.raised])
        /\ UNCHANGED <<index_vars, bfs_vars, codec_vars>>

(***************************************************************************)
(* Inputs of the grounding specification.                                  *)
(***************************************************************************)
QTermNames == {<<"a">>, <<"b">>}
QRelNames == {<<"r">>, <<"a">>}
QKeys == QTermNames \cup QRelNames \cup {<<"z">>}
Values == {1, 2}

\* one atomic per choice of relation, head and tail; sym: the SYMBOL names
QTerm(sym, n) == Term(IF n \in sym THEN SYMBOL ELSE EXISTENTIAL, n)

QAtomics(sym) ==
    {Atomic(rel, QTerm(sym, h), QTerm(sym, t)) :
        rel \in QRelNames, h \in QTermNames, t \in QTermNames}

QFormulas ==
    UNION {{Conjunction(fs) :
               fs \in UNION {[1..n -> QAtomics(sym)] : n \in 1..MaxQueryAtomics}} :
           sym \in SUBSET QTermNames}

KeySeqs ==
    {ks \in UNION {[1..n -> QKeys] : n \in 0..MaxKeys} :
        \A i, j \in 1..Len(ks) : i # j => ks[i] # ks[j]}

\* the ids are opaque to the code: one id per append_dict, under every key
AppendDicts ==
    {[i \in 1..Len(ks) |-> [k |-> ks[i], v |-> id]] : ks \in KeySeqs, id \in Values}

\* the defaults of append_qa_instances, and one supplied triple
AnswerChoices ==
    {[easy |-> <<>>, hard |-> <<>>, noisy |-> <<>>],
     [easy |-> <<1>>, hard |-> <<2>>, noisy |-> <<3>>]}

NoObject == [op |-> "none"]

BfsIdle ==
    /\ source_var_name = <<>>
    /\ visited_vars = {}
    /\ var_name_levels = <<>>
    /\ pc = "idle"

CodecIdle ==
    /\ obj = NoObject
    /\ ldict = NoObject
    /\ orig = NoObject
    /\ ret = [op |-> "none", raised |-> "none"]

Init ==
    /\ \E f \in QFormulas : QueryInit(f)
    /\ BfsIdle
    /\ CodecIdle

CallAppendRelationAndSymbols ==
    \E d \in AppendDicts : append_relation_and_symbols(d)

CallAppendQaInstances ==
    \E d \in AppendDicts, a \in AnswerChoices :
        append_qa_instances(d, a.easy, a.hard, a.noisy)

Next == CallAppendRelationAndSymbols \/ CallAppendQaInstances

Spec == Init /\ [][Next]_vars

(***************************************************************************)
(* Properties of the grounding lists (specification Spec).                 *)
(***************************************************************************)
IsPrefix(s, t) == Len(s) <= Len(t) /\ \A i \in 1..Len(s) : s[i] = t[i]

\* a valid call: append_qa_instances with a value for every SYMBOL term name
\* and every relation name, and no key that is neither a term nor a relation
ValidCall(e) ==
    /\ e.op = "append_qa_instances"
    /\ (symbol_dict \cup RelationNames) \subseteq DictKeys(e.append_dict)
    /\ DictKeys(e.append_dict) \subseteq (DOMAIN term_dict \cup RelationNames)

OnlyValidCalls == \A i \in 1..Len(log) : ValidCall(log[i])

NoNameClash == DOMAIN term_dict \cap RelationNames = {}

\* the step just taken is a call of op, recorded as the last entry of log'
Called(op) == Len(log') = Len(log) + 1 /\ log'[Len(log')].op = op

\* the list a key of append_dict targets, before and after the step
TargetGrewBy(k, v) ==
    IF k \in DOMAIN term_dict
    THEN term_grounded_entity_id_dict'[k] = Append(term_grounded_entity_id_dict[k], v)
    ELSE /\ k \in RelationNames
         /\ pred_grounded_relation_id_dict'[k] =
                Append(pred_grounded_relation_id_dict[k], v)

\* C1 as stated: after n valid append_qa_instances calls on a query built from
\* any formula, num_instances returns n without failing.
C1_NumInstancesAnyFormula ==
    OnlyValidCalls => num_instances = [raised |-> "none", value |-> Len(log)]

\* C1 amended: after n valid append_qa_instances calls on a query in which no
\* relation name is also a term name, num_instances returns n without failing.
C1_NumInstances ==
    (OnlyValidCalls /\ NoNameClash) =>
        num_instances = [raised |-> "none", value |-> Len(log)]

C1_Witness ==
    /\ OnlyValidCalls
    /\ NoNameClash
    /\ Len(log) >= 2
    /\ symbol_dict # {}
    /\ num_instances = [raised |-> "none", value |-> 2]

\* C3: append_qa_instances is all-or-nothing: either it completes and every
\* targeted grounded-id list and the three answer lists grew by one entry, or
\* it fails and every grounded-id list and answer list is as before the call.
C3_AllOrNothing ==
    [][Called("append_qa_instances") =>
        LET e == log'[Len(log')]
            d == e.append_dict
        IN  \/ /\ e.raised = "none"
               /\ \A i \in 1..Len(d) : TargetGrewBy(d[i].k, d[i].v)
               /\ easy_answer_list' = Append(easy_answer_list, e.easy_answers)
               /\ hard_answer_list' = Append(hard_answer_list, e.hard_answers)
               /\ noisy_answer_list' = Append(noisy_answer_list, e.noisy_answer)
            \/ /\ e.raised # "none"
               /\ UNCHANGED list_vars]_vars

\* C7: in a call of append_relation_and_symbols whose keys all name a term or
\* a relation, the value of a key in term_dict goes to that term's list and to
\* no relation list, even when a relation has the same name; the value of any
\* other key goes to the list of the relation named key.  In every call, the
\* lists whose name is not a key and the three answer lists are unchanged.
C7_GroundingPrecedence ==
    [][Called("append_relation_and_symbols") =>
        LET e == log'[Len(log')]
            d == e.append_dict
        IN  /\ e.raised = "none" =>
                \A i \in 1..Len(d) :
                    /\ TargetGrewBy(d[i].k, d[i].v)
                    /\ (d[i].k \in DOMAIN term_dict /\ d[i].k \in RelationNames) =>
                          pred_grounded_relation_id_dict'[d[i].k] =
                              pred_grounded_relation_id_dict[d[i].k]
            /\ \A n \in DOMAIN term_dict \ DictKeys(d) :
                   term_grounded_entity_id_dict'[n] = term_grounded_entity_id_dict[n]
            /\ \A n \in RelationNames \ DictKeys(d) :
                   pred_grounded_relation_id_dict'[n] = pred_grounded_relation_id_dict[n]
            /\ UNCHANGED <<easy_answer_list, hard_answer_list, noisy_answer_list>>]_vars

\* a completed append_relation_and_symbols call took a key that names both a
\* term and a relation, and a second key
C7_Witness ==
    /\ Len(log) = 1
    /\ log[1].op = "append_relation_and_symbols"
    /\ log[1].raised = "none"
    /\ Len(log[1].append_dict) = 2
    /\ \E k \in DictKeys(log[1].append_dict) :
           /\ k \in DOMAIN term_dict /\ k \in RelationNames
           /\ Len(term_grounded_entity_id_dict[k]) = 1
           /\ Len(pred_grounded_relation_id_dict[k]) = 0

\* every list before the step is a prefix of the same list after it
AppendOnlyStep ==
    /\ \A n \in DOMAIN term_dict :
           IsPrefix(term_grounded_entity_id_dict[n], term_grounded_entity_id_dict'[n])
    /\ \A n \in RelationNames :
           IsPrefix(pred_grounded_relation_id_dict[n], pred_grounded_relation_id_dict'[n])
    /\ IsPrefix(easy_answer_list, easy_answer_list')
    /\ IsPrefix(hard_answer_list, hard_answer_list')
    /\ IsPrefix(noisy_answer_list, noisy_answer_list')

HoldsAt(l, i, x) == Len(l) >= i /\ l[i] = x

\* index i of every list holds what the i-th call supplied
AlignedByIndex ==
    \A i \in 1..Len(log) :
        /\ HoldsAt(easy_answer_list, i, log[i].easy_answers)
        /\ HoldsAt(hard_answer_list, i, log[i].hard_answers)
        /\ HoldsAt(noisy_answer_list, i, log[i].noisy_answer)
        /\ \A k \in symbol_dict :
               HoldsAt(term_grounded_entity_id_dict[k], i, DictGet(log[i].append_dict, k))
        /\ \A k \in RelationNames :
               HoldsAt(pred_grounded_relation_id_dict[k], i, DictGet(log[i].append_dict, k))

\* C9 as stated: every step keeps each list a prefix of itself, and after
\* valid append_qa_instances calls index i of the answer lists, of every
\* symbol's list and of every relation's list holds the i-th call's values.
C9_AppendOnlyAlignedAnyFormula ==
    [][AppendOnlyStep /\ (OnlyValidCalls => AlignedByIndex)']_vars

\* C9 amended: every step keeps each list a prefix of itself, and after valid
\* append_qa_instances calls on a query in which no relation name is also a
\* term name, index i of every such list holds the i-th call's values.
C9_AppendOnlyAligned ==
    [][AppendOnlyStep /\ ((OnlyValidCalls /\ NoNameClash) => AlignedByIndex)']_vars

\* two valid calls with different ids and different answers, on a query with
\* a symbol
C9_Witness ==
    /\ OnlyValidCalls
    /\ NoNameClash
    /\ Len(log) >= 2
    /\ symbol_dict # {}
    /\ easy_answer_list[1] # easy_answer_list[2]
    /\ \E k \in symbol_dict :
           term_grounded_entity_id_dict[k][1] # term_grounded_entity_id_dict[k][2]

(***************************************************************************)
(* get_bfs_variable_ordering                                               *)
(***************************************************************************)
\* line 533: set(source_var_name) is the set of the characters of the name
SeedVisited(name) == {<<name[i]>> : i \in 1..Len(name)}

\* line 545: visited_vars.add(term.name)
VisitedKeep(visited, name) == visited

VisitedAdd(visited, name) == visited \cup {name}

\* line 537: the next level is emptied at every variable of the current level
NextLevelAtVariable(next) == <<>>

RECURSIVE TermsAround(_, _)
\* the terms the two inner loops examine for one variable: for each incident
\* atomic name, from entry i on, the head and the tail of that atomic
TermsAround(names, i) ==
    IF i > Len(names) THEN <<>>
    ELSE get_terms(DictGet(atomic_dict, names[i])) \o TermsAround(names, i + 1)

RECURSIVE VisitTerms(_, _, _, _, _)
\* lines 540-549 over the terms ts from entry i on
VisitTerms(ts, i, order, visited, next) ==
    IF i > Len(ts) THEN [visited |-> visited, next |-> next]
    ELSE IF ts[i].state = SYMBOL THEN VisitTerms(ts, i + 1, order, visited, next)
    ELSE IF ts[i].name \notin visited
         THEN VisitTerms(ts, i + 1, order, VisitedAdd(visited, ts[i].name),
                         Append(next, <<ts[i].name, order + 1>>))
    ELSE VisitTerms(ts, i + 1, order, visited, next)

RECURSIVE LevelLoop(_, _, _, _)
\* lines 536-549: the for loop over the last level, from pair j on
LevelLoop(level, j, visited, next) ==
    IF j > Len(level) THEN [visited |-> visited, next |-> next]
    ELSE LET r == VisitTerms(TermsAround(AdjacencyOf(level[j][1]), 1), 1,
                             level[j][2], visited, NextLevelAtVariable(next))
         IN  LevelLoop(level, j + 1, r.visited, r.next)

\* one pass of the while loop: what the for loop leaves in visited_vars and
\* next_var_name_level
Pass == LevelLoop(var_name_levels[Len(var_name_levels)], 1, visited_vars, <<>>)

\* line 551: the pass found no new name
NeverBreak(next) == FALSE

NoNewNames(next) == Len(next) = 0

\* lines 533-534: the call, up to the while loop
get_bfs_variable_ordering(name) ==
    /\ pc = "idle"
    /\ source_var_name' = name
    /\ visited_vars' = SeedVisited(name)
    /\ var_name_levels' = <<<<<<name, 0>>>>>>
    /\ pc' = "while"
    /\ UNCHANGED <<index_vars, list_vars, log, codec_vars>>

\* lines 536-554, a pass that found new names: the level is appended
BfsAppendLevel ==
    /\ pc = "while"
    /\ Len(var_name_levels) < MaxLevels
    /\ ~NoNewNames(Pass.next)
    /\ visited_vars' = Pass.visited
    /\ var_name_levels' = Append(var_name_levels, Pass.next)
    /\ UNCHANGED <<source_var_name, pc>>
    /\ UNCHANGED <<index_vars, list_vars, log, codec_vars>>

\* lines 536-552 and 556, a pass that found nothing: break and return
BfsBreak ==
    /\ pc = "while"
    /\ Len(var_name_levels) < MaxLevels
    /\ NoNewNames(Pass.next)
    /\ visited_vars' = Pass.visited
    /\ pc' = "done"
    /\ UNCHANGED <<source_var_name, var_name_levels>>
    /\ UNCHANGED <<index_vars, list_vars, log, codec_vars>>

(***************************************************************************)
(* Inputs of the traversal specification.                                  *)
(***************************************************************************)
BTermNames == {<<"f">>, <<"a">>, <<"b">>, <<"f", "a">>}
BSymbolCandidates == {<<"b">>}

\* the smaller universe of the specification with fairness
BFairTermNames == {<<"f">>, <<"a">>, <<"f", "a">>}
BFairSymbolCandidates == {<<"a">>}

BAtomics(names, sym) ==
    {Atomic(<<"r">>, QTerm(sym, h), QTerm(sym, t)) : h \in names, t \in names}

\* the conjunctions of at most n atomics over the names, with the SYMBOL
\* names drawn from the candidates
BFormulas(names, candidates, n) ==
    UNION {{Conjunction(fs) :
               fs \in UNION {[1..m -> BAtomics(names, sym)] : m \in 1..n}} :
           sym \in SUBSET candidates}

InitBFS ==
    /\ \E f \in BFormulas(BTermNames, BSymbolCandidates, MaxBfsAtomics) : QueryInit(f)
    /\ BfsIdle
    /\ CodecIdle

InitBFSFair ==
    /\ \E f \in BFormulas(BFairTermNames, BFairSymbolCandidates, MaxFairAtomics) :
           QueryInit(f)
    /\ BfsIdle
    /\ CodecIdle

CallGetBfsVariableOrdering ==
    \E name \in BTermNames : get_bfs_variable_ordering(name)

NextBFS == CallGetBfsVariableOrdering \/ BfsAppendLevel \/ BfsBreak

SpecBFS == InitBFS /\ [][NextBFS]_vars

\* the call is made and runs to completion: a pass that can be taken is taken
SpecBFSFair == InitBFSFair /\ [][NextBFS]_vars /\ WF_vars(NextBFS)

(***************************************************************************)
(* Properties of the traversal (specifications SpecBFS and SpecBFSFair).   *)
(***************************************************************************)
\* n is a non-SYMBOL term of an atomic in which a term named m occurs
Edge(m, n) ==
    \E i \in 1..Len(atomic_dict) :
        LET a == atomic_dict[i].v
        IN  /\ a.head.name = m \/ a.tail.name = m
            /\ \/ a.head.name = n /\ a.head.state # SYMBOL
               \/ a.tail.name = n /\ a.tail.state # SYMBOL

RECURSIVE WithinDistance(_)
\* the names at most d atomics away from the source
WithinDistance(d) ==
    IF d = 0 THEN {source_var_name}
    ELSE LET near == WithinDistance(d - 1)
         IN  near \cup {n \in DOMAIN term_dict : \E m \in near : Edge(m, n)}

\* the names exactly d atomics away from the source
AtDistance(d) ==
    IF d = 0 THEN {source_var_name} ELSE WithinDistance(d) \ WithinDistance(d - 1)

\* the positions <<level, index>> of the pairs of a result
PairsOf(levels) ==
    UNION {{<<l, i>> : i \in 1..Len(levels[l])} : l \in 1..Len(levels)}

\* C2, at a source name of one character (where the seed of line 533 is the
\* name itself): the result is a breadth-first traversal: every name v at
\* distance d from the source, over atomics and through non-SYMBOL terms, is
\* in the result as the pair (v, d) in level d.
C2_BreadthFirstLevels ==
    (pc = "done" /\ Len(source_var_name) = 1) =>
        \A d \in 0..Cardinality(DOMAIN term_dict) :
            \A v \in AtDistance(d) :
                /\ Len(var_name_levels) >= d + 1
                /\ <<v, d>> \in Range(var_name_levels[d + 1])

\* C8: get_bfs_variable_ordering terminates, for every query and source name:
\* a call that entered the while loop reaches a pass that adds no name and
\* returns.
C8_Terminates == <>(pc = "done")

\* the call returned, with two levels or more, on a query with a cycle of two
\* variables
C8_Witness ==
    /\ pc = "done"
    /\ Len(var_name_levels) >= 2
    /\ \E i, j \in 1..Len(atomic_dict) :
           /\ i # j
           /\ atomic_dict[i].v.head.name = atomic_dict[j].v.tail.name
           /\ atomic_dict[i].v.tail.name = atomic_dict[j].v.head.name
           /\ atomic_dict[i].v.head.name # atomic_dict[i].v.tail.name

\* C10: no name occurs in more than one pair of the result, the source occurs
\* only as (s, 0) in level 0, and no SYMBOL term other than the source occurs.
C10_NoNameTwice ==
    LET L == var_name_levels
        P == PairsOf(L)
    IN  /\ \A p, q \in P : L[p[1]][p[2]][1] = L[q[1]][q[2]][1] => p = q
        /\ \A p \in P :
               L[p[1]][p[2]][1] = source_var_name =>
                   p[1] = 1 /\ L[p[1]][p[2]] = <<source_var_name, 0>>
        /\ \A p \in P :
               LET n == L[p[1]][p[2]][1]
               IN  n # source_var_name =>
                       /\ n \in DOMAIN term_dict
                       /\ term_dict[n].state # SYMBOL

(***************************************************************************)
(* The nested-dict codec: to_ldict, parse, check_ldict, __repr__.          *)
(* A mapping is a record; `key in d` is key \in DOMAIN d.                  *)
(***************************************************************************)
Raise(exc) == [raised |-> exc]

Return(value) == [raised |-> "none", value |-> value]

HasAttr(x, attr) == attr \in DOMAIN x

\* Term.to_ldict: reads self.entity_id_list, which __init__ does not set
Term_to_ldict(t) ==
    IF ~HasAttr(t, "entity_id_list") THEN Raise("AttributeError")
    ELSE Return([op |-> Term_op,
                 args |-> [state |-> t.state, name |-> t.name,
                           entity_id_list |-> t.entity_id_list]])

RECURSIVE to_ldict(_)
RECURSIVE to_ldict_list(_, _, _)

\* Atomic.to_ldict: reads self.name and self.relation_id_list, which __init__
\* does not set, then serializes the head and the tail
Atomic_to_ldict(a) ==
    IF ~HasAttr(a, "name") THEN Raise("AttributeError")
    ELSE IF ~HasAttr(a, "relation_id_list") THEN Raise("AttributeError")
    ELSE LET h == Term_to_ldict(a.head)
             t == Term_to_ldict(a.tail)
         IN  IF h.raised # "none" THEN h
             ELSE IF t.raised # "none" THEN t
             ELSE Return([op |-> Atomic_op,
                          args |-> [name |-> a.name,
                                    relation_id_list |-> a.relation_id_list,
                                    head |-> h.value, tail |-> t.value]])

\* x.to_ldict(), by the class of x
to_ldict(x) ==
    IF x.op = Term_op THEN Term_to_ldict(x)
    ELSE IF x.op = Atomic_op THEN Atomic_to_ldict(x)
    ELSE IF x.op = Negation_op
         THEN LET f == to_ldict(x.formula)
              IN  IF f.raised # "none" THEN f
                  ELSE Return([op |-> Negation_op, args |-> [formula |-> f.value]])
    ELSE LET fs == to_ldict_list(x.formulas, 1, <<>>)
         IN  IF fs.raised # "none" THEN fs
             ELSE Return([op |-> x.op, args |-> [formulas |-> fs.value]])

\* [f.to_ldict() for f in self.formulas], from formula i on
to_ldict_list(fs, i, done) ==
    IF i > Len(fs) THEN Return(done)
    ELSE LET r == to_ldict(fs[i])
         IN  IF r.raised # "none" THEN r
             ELSE to_ldict_list(fs, i + 1, Append(done, r.value))

\* Term.parse
Term_parse(l) ==
    IF ~HasAttr(l, "op") THEN Raise("KeyError")
    ELSE IF l.op # Term_op THEN Raise("AssertionError")
    ELSE IF ~HasAttr(l, "args") THEN Raise("KeyError")
    ELSE IF ~HasAttr(l.args, "name") THEN Raise("KeyError")
    ELSE IF ~HasAttr(l.args, "state") THEN Raise("KeyError")
    ELSE IF ~HasAttr(l.args, "entity_id_list") THEN Raise("KeyError")
    ELSE Return(Term(l.args.state, l.args.name)
                    @@ [entity_id_list |-> l.args.entity_id_list])

\* the parameters of Atomic.__init__ (all required)
Atomic_init_params == {"relation", "head", "tail"}

\* cls(**kwargs) binds: every keyword is a parameter and none is missing
InitBinds(params, keywords) == keywords = params

\* Atomic.parse: calls cls(name=name, head=head, tail=tail)
Atomic_parse(l) ==
    IF ~HasAttr(l, "op") THEN Raise("KeyError")
    ELSE IF l.op # Atomic_op THEN Raise("AssertionError")
    ELSE IF ~HasAttr(l, "args") THEN Raise("KeyError")
    ELSE IF ~HasAttr(l.args, "name") THEN Raise("KeyError")
    ELSE IF ~HasAttr(l.args, "head") THEN Raise("KeyError")
    ELSE LET h == Term_parse(l.args.head)
         IN  IF h.raised # "none" THEN h
             ELSE IF ~HasAttr(l.args, "tail") THEN Raise("KeyError")
             ELSE LET t == Term_parse(l.args.tail)
                  IN  IF t.raised # "none" THEN t
                      ELSE IF ~InitBinds(Atomic_init_params, {"name", "head", "tail"})
                           THEN Raise("TypeError")
                      ELSE IF ~HasAttr(l.args, "relation_id_list")
                           THEN Raise("KeyError")
                      ELSE Return([op |-> Atomic_op, relation |-> l.args.name,
                                   head |-> [h.value EXCEPT !.parent_predicate = "obj"],
                                   tail |-> [t.value EXCEPT !.parent_predicate = "obj"],
                                   negated |-> FALSE,
                                   relation_id_list |-> l.args.relation_id_list])

\* line 177
UnsupportedOperator == Raise("NotImplementedError")

RECURSIVE Formula_parse(_)
RECURSIVE parse_list(_, _, _)

\* Negation.parse
Negation_parse(l) ==
    IF ~HasAttr(l, "args") THEN Raise("KeyError")
    ELSE IF ~HasAttr(l.args, "formula") THEN Raise("KeyError")
    ELSE LET f == Formula_parse(l.args.formula)
         IN  IF f.raised # "none" THEN f
             ELSE IF f.value.op = Atomic_op
                  THEN Return(Negation(f.value @@ [skolem_negation |-> TRUE]))
             ELSE Return(Negation(f.value))

\* Conjunction.parse and Disjunction.parse
Connective_parse(l) ==
    IF ~HasAttr(l, "args") THEN Raise("KeyError")
    ELSE IF ~HasAttr(l.args, "formulas") THEN Raise("KeyError")
    ELSE LET fs == parse_list(l.args.formulas, 1, <<>>)
         IN  IF fs.raised # "none" THEN fs
             ELSE Return([op |-> l.op, formulas |-> fs.value])

\* Formula.parse: the dispatch on the op tag
Formula_parse(l) ==
    IF ~HasAttr(l, "op") THEN Raise("KeyError")
    ELSE IF l.op = Atomic_op THEN Atomic_parse(l)
    ELSE IF l.op = Negation_op THEN Negation_parse(l)
    ELSE IF l.op = Conjunction_op THEN Connective_parse(l)
    ELSE IF l.op = Disjunction_op THEN Connective_parse(l)
    ELSE UnsupportedOperator

\* [Formula.parse(d) for d in formula_dict_list], from mapping i on
parse_list(ls, i, done) ==
    IF i > Len(ls) THEN Return(done)
    ELSE LET r == Formula_parse(ls[i])
         IN  IF r.raised # "none" THEN r
             ELSE parse_list(ls, i + 1, Append(done, r.value))

RECURSIVE check_ldict(_)
RECURSIVE check_ldict_list(_, _)

\* lines 65-69: the pred branch reads args['term1'] and args['term2']
check_pred(args) ==
    IF ~HasAttr(args, "name") THEN "AssertionError"
    ELSE IF ~HasAttr(args, "relation_id_list") THEN "AssertionError"
    ELSE IF ~HasAttr(args, "term1") THEN "KeyError"
    ELSE IF check_ldict(args.term1) # "none" THEN check_ldict(args.term1)
    ELSE IF ~HasAttr(args, "term2") THEN "KeyError"
    ELSE check_ldict(args.term2)

\* check_ldict: the exception it raises, or "none" when it returns; a tag
\* that matches no branch falls through every `if` and returns
check_ldict(l) ==
    IF ~HasAttr(l, "op") THEN "AssertionError"
    ELSE IF ~HasAttr(l, "args") THEN "AssertionError"
    ELSE IF l.op = Term_op
         THEN IF /\ HasAttr(l.args, "name")
                 /\ HasAttr(l.args, "state")
                 /\ HasAttr(l.args, "entity_id_list")
              THEN "none" ELSE "AssertionError"
    ELSE IF l.op = Atomic_op THEN check_pred(l.args)
    ELSE IF l.op = Negation_op
         THEN IF ~HasAttr(l.args, "formula") THEN "AssertionError"
              ELSE check_ldict(l.args.formula)
    ELSE IF l.op = Conjunction_op \/ l.op = Disjunction_op
         THEN IF ~HasAttr(l.args, "formulas") THEN "AssertionError"
              ELSE check_ldict_list(l.args.formulas, 1)
    ELSE "none"

\* for f in args['formulas']: check_ldict(f), from mapping i on
check_ldict_list(ls, i) ==
    IF i > Len(ls) THEN "none"
    ELSE IF check_ldict(ls[i]) # "none" THEN check_ldict(ls[i])
    ELSE check_ldict_list(ls, i + 1)

\* Lobject.__repr__: check_ldict(self.to_ldict()), then json.dumps
repr(x) ==
    LET l == to_ldict(x)
    IN  IF l.raised # "none" THEN l.raised ELSE check_ldict(l.value)

(***************************************************************************)
(* The codec calls, on the object or the mapping under test.               *)
(***************************************************************************)
CallToLdict ==
    /\ obj # NoObject
    /\ LET r == to_ldict(obj)
       IN  /\ ret' = [op |-> "to_ldict", raised |-> r.raised]
           /\ IF r.raised = "none"
              THEN ldict' = r.value /\ orig' = obj
              ELSE UNCHANGED <<ldict, orig>>
    /\ UNCHANGED obj
    /\ UNCHANGED <<index_vars, list_vars, log, bfs_vars>>

CallParse ==
    /\ ldict # NoObject
    /\ LET r == Formula_parse(ldict)
       IN  /\ ret' = [op |-> "parse", raised |-> r.raised]
           /\ obj' = IF r.raised = "none" THEN r.value ELSE NoObject
    /\ UNCHANGED <<ldict, orig>>
    /\ UNCHANGED <<index_vars, list_vars, log, bfs_vars>>

CallCheckLdict ==
    /\ ldict # NoObject
    /\ ret' = [op |-> "check_ldict", raised |-> check_ldict(ldict)]
    /\ UNCHANGED <<obj, ldict, orig>>
    /\ UNCHANGED <<index_vars, list_vars, log, bfs_vars>>

CallRepr ==
    /\ obj # NoObject
    /\ ret' = [op |-> "repr", raised |-> repr(obj)]
    /\ UNCHANGED <<obj, ldict, orig>>
    /\ UNCHANGED <<index_vars, list_vars, log, bfs_vars>>

(***************************************************************************)
(* Inputs of the codec specification.                                      *)
(***************************************************************************)
CTerms == {Term(FREE, <<"f">>), Term(EXISTENTIAL, <<"e">>), Term(SYMBOL, <<"s">>)}

CAtomics == {Atomic(<<"r">>, h, t) : h \in CTerms, t \in CTerms}

CLiterals == CAtomics \cup {Negation(a) : a \in CAtomics}

CLiteralLists == UNION {[1..n -> CLiterals] : n \in 0..MaxLiterals}

\* the trees built from the constructors alone
CObjects ==
    CLiterals
    \cup {Conjunction(fs) : fs \in CLiteralLists}
    \cup {Disjunction(<<Conjunction(fs)>>) : fs \in CLiteralLists}
    \cup {Disjunction(<<>>), Negation(Conjunction(<<>>))}

RECURSIVE WithIds(_)
\* the same tree after the caller has set entity_id_list on every term and
\* name and relation_id_list on every atomic
WithIds(x) ==
    IF x.op = Term_op THEN x @@ [entity_id_list |-> <<>>]
    ELSE IF x.op = Atomic_op
         THEN [x EXCEPT !.head = WithIds(x.head), !.tail = WithIds(x.tail)]
                  @@ [name |-> x.relation, relation_id_list |-> <<>>]
    ELSE IF x.op = Negation_op THEN Negation(WithIds(x.formula))
    ELSE [op |-> x.op, formulas |-> [i \in 1..Len(x.formulas) |-> WithIds(x.formulas[i])]]

Without(r, key) == [k \in DOMAIN r \ {key} |-> r[k]]

\* the mappings of the serialization format, one per tree
FormatLdicts == {to_ldict(WithIds(x)).value : x \in CObjects}

\* a mapping with one key of its args removed
KeyDropped == {[l EXCEPT !.args = Without(l.args, key)] : l \in FormatLdicts,
               key \in {"name", "relation_id_list", "head", "tail", "formula", "formulas"}}

\* a mapping with an op tag that is none of pred, neg, conj, disj: at the root,
\* under a negation, and after a well-formed mapping in a conjunction
TagUnknown ==
    LET bad == {[l EXCEPT !.op = "xor"] : l \in FormatLdicts}
        preds == {to_ldict(WithIds(a)).value : a \in CAtomics}
    IN  bad
        \cup {[op |-> Negation_op, args |-> [formula |-> b]] : b \in bad}
        \cup {[op |-> Conjunction_op, args |-> [formulas |-> <<p, [p EXCEPT !.op = "xor"]>>]] :
                 p \in preds}
        \cup {[op |-> Conjunction_op, args |-> [formulas |-> <<[p EXCEPT !.op = "xor"], p>>]] :
                 p \in preds}

\* a pred mapping with its terms under the keys check_ldict reads
TermKeysRenamed ==
    {[l EXCEPT !.args = Without(Without(l.args, "head"), "tail")
                            @@ [term1 |-> l.args.head, term2 |-> l.args.tail]] :
        l \in {to_ldict(WithIds(a)).value : a \in CAtomics}}

InitCodec ==
    /\ formula = NoObject
    /\ atomic_dict = <<>>
    /\ term_dict = <<>>
    /\ term_name2atomic_name_list = <<>>
    /\ pred_grounded_relation_id_dict = <<>>
    /\ term_grounded_entity_id_dict = <<>>
    /\ easy_answer_list = <<>>
    /\ hard_answer_list = <<>>
    /\ noisy_answer_list = <<>>
    /\ log = <<>>
    /\ BfsIdle
    /\ orig = NoObject
    /\ ret = [op |-> "none", raised |-> "none"]
    /\ \/ /\ obj \in CObjects \cup {WithIds(x) : x \in CObjects}
          /\ ldict = NoObject
       \/ /\ obj = NoObject
          /\ ldict \in FormatLdicts \cup KeyDropped \cup TagUnknown \cup TermKeysRenamed

NextCodec == CallToLdict \/ CallParse \/ CallCheckLdict \/ CallRepr

SpecCodec == InitCodec /\ [][NextCodec]_vars

(***************************************************************************)
(* Properties of the codec (specification SpecCodec).                      *)
(***************************************************************************)
RECURSIVE OpTree(_)
\* the tree of op tags of an object
OpTree(x) ==
    IF x.op = Term_op THEN <<x.op>>
    ELSE IF x.op = Atomic_op THEN <<x.op, OpTree(x.head), OpTree(x.tail)>>
    ELSE IF x.op = Negation_op THEN <<x.op, OpTree(x.formula)>>
    ELSE <<x.op, [i \in 1..Len(x.formulas) |-> OpTree(x.formulas[i])]>>

FormulaTags == {Atomic_op, Negation_op, Conjunction_op, Disjunction_op}

TermWellFormed(l) ==
    /\ HasAttr(l, "op") /\ HasAttr(l, "args")
    /\ l.op = Term_op
    /\ {"name", "state", "entity_id_list"} \subseteq DOMAIN l.args

RECURSIVE WellFormed(_)
\* a mapping of the serialization format, in a formula position
WellFormed(l) ==
    /\ HasAttr(l, "op") /\ HasAttr(l, "args")
    /\ l.op \in FormulaTags
    /\ l.op = Atomic_op =>
           /\ {"name", "relation_id_list", "head", "tail"} \subseteq DOMAIN l.args
           /\ TermWellFormed(l.args.head)
           /\ TermWellFormed(l.args.tail)
    /\ l.op = Negation_op =>
           /\ HasAttr(l.args, "formula")
           /\ WellFormed(l.args.formula)
    /\ l.op \in {Conjunction_op, Disjunction_op} =>
           /\ HasAttr(l.args, "formulas")
           /\ \A i \in 1..Len(l.args.formulas) : WellFormed(l.args.formulas[i])

RECURSIVE LacksRequiredKey(_)
\* some node of the mapping lacks a key its op tag requires
LacksRequiredKey(l) ==
    IF ~HasAttr(l, "op") \/ ~HasAttr(l, "args") THEN TRUE
    ELSE IF l.op = Term_op
         THEN ~({"name", "state", "entity_id_list"} \subseteq DOMAIN l.args)
    ELSE IF l.op = Atomic_op
         THEN \/ ~({"name", "relation_id_list", "head", "tail"} \subseteq DOMAIN l.args)
              \/ LacksRequiredKey(l.args.head)
              \/ LacksRequiredKey(l.args.tail)
    ELSE IF l.op = Negation_op
         THEN ~HasAttr(l.args, "formula") \/ LacksRequiredKey(l.args.formula)
    ELSE IF l.op \in {Conjunction_op, Disjunction_op}
         THEN \/ ~HasAttr(l.args, "formulas")
              \/ \E i \in 1..Len(l.args.formulas) : LacksRequiredKey(l.args.formulas[i])
    ELSE FALSE

RECURSIVE HasUnknownTag(_)
\* some formula position of the mapping holds a tag that is none of pred, neg,
\* conj, disj
HasUnknownTag(l) ==
    IF ~HasAttr(l, "op") \/ ~HasAttr(l, "args") THEN FALSE
    ELSE IF l.op \notin FormulaTags THEN TRUE
    ELSE IF l.op = Negation_op
         THEN HasAttr(l.args, "formula") /\ HasUnknownTag(l.args.formula)
    ELSE IF l.op \in {Conjunction_op, Disjunction_op}
         THEN /\ HasAttr(l.args, "formulas")
              /\ \E i \in 1..Len(l.args.formulas) : HasUnknownTag(l.args.formulas[i])
    ELSE FALSE

\* C4: round trip: for a tree x built from the constructors, to_ldict(x)
\* succeeds, Formula.parse of the result succeeds, and the parsed formula has
\* the lstr of x and the tree of op tags of x.
C4_RoundTrip ==
    /\ (ret.op = "to_ldict" /\ obj \in CObjects) => ret.raised = "none"
    /\ (ret.op = "parse" /\ orig \in CObjects) =>
           /\ ret.raised = "none"
           /\ lstr(obj) = lstr(orig)
           /\ OpTree(obj) = OpTree(orig)

\* C5: check_ldict returns without failing on every well-formed mapping of the
\* serialization format, and fails with an assertion error when a required
\* key is missing.
C5_CheckLdictAccepts ==
    ret.op = "check_ldict" =>
        /\ WellFormed(ldict) => ret.raised = "none"
        /\ LacksRequiredKey(ldict) => ret.raised = "AssertionError"

\* C6: on a mapping with an op tag that is none of pred, neg, conj, disj in a
\* formula position, at any depth, Formula.parse fails with the
\* unsupported-operator error and check_ldict fails too.
C6_UnknownTagRejected ==
    HasUnknownTag(ldict) =>
        /\ ret.op = "parse" => ret.raised = "NotImplementedError"
        /\ ret.op = "check_ldict" => ret.raised # "none"

====
